---- MODULE Spec2Model ----
(***************************************************************************)
(* Model of radar_chart (src/radar/radar_chart.py).                        *)
(*                                                                         *)
(* radar_chart is one synchronous call: it normalises its arguments,       *)
(* creates a polar axis, draws one closed polygon per series and then      *)
(* styles and optionally saves the figure.  The state is the arguments of  *)
(* the call, the local theta, the ordered log of the calls made on the     *)
(* plotting library (ops), how the call ended (result) and whether a file  *)
(* was written (saved).                                                     *)
(*                                                                         *)
(* Python strings are sequences of one-character strings, so that          *)
(* indexing a string (groups[index][0]) is what Python does.  A numpy      *)
(* scalar, 1-D array or 2-D array taken out of `values` is an item record  *)
(* [ndim, rows, obj].  An angle is a fraction num/den of a full turn       *)
(* (radians = num/den * 2*pi); den = 0 is the nan of 0 / 0.0.              *)
(***************************************************************************)
EXTENDS Integers, Sequences, FiniteSets, TLC

MaxN == 2
MaxK == 3

VARIABLES labels, values, groups, opts, theta, ops, result, saved

vars == <<labels, values, groups, opts, theta, ops, result, saved>>

----------------------------------------------------------------------------
(* Arguments of a call *)

\* radar_chart never inspects a number of values, it only moves them: the
\* numbers are either all different (their position shows) or all equal.
Palettes == {"distinct", "equal"}

Cell(p, i, j) == IF p = "distinct" THEN 10 * i + j ELSE 7

SeriesOf(p, i, len) == [j \in 1..len |-> Cell(p, i, j)]

LabelAt(i) == <<"L", ToString(i)>>

LabelsOf(n) == [i \in 1..n |-> LabelAt(i)]

\* values = [x1, ..., xm]
FlatValues(p, m) == [nested |-> FALSE, rows |-> <<SeriesOf(p, 1, m)>>]

\* values = [[...], ..., [...]], lens[i] the length of the i-th series
NestedValues(p, lens) ==
    [nested |-> TRUE, rows |-> [i \in 1..Len(lens) |-> SeriesOf(p, i, lens[i])]]

GroupNameAt(i) == <<"P", ToString(i)>>

\* groups=None
NoGroups == [given |-> FALSE, wrapped |-> FALSE, names |-> <<>>]

\* groups = ["P1", ...] (wrapped = FALSE) or [["P1"], ...] (wrapped = TRUE)
GroupsOf(w, g) ==
    [given |-> TRUE, wrapped |-> w, names |-> [i \in 1..g |-> GroupNameAt(i)]]

LenSeqs(k) == [1..k -> 0..MaxN]

ValueArgs ==
    {FlatValues(p, m) : p \in Palettes, m \in 0..MaxN}
        \cup UNION {{NestedValues(p, lens) : p \in Palettes, lens \in LenSeqs(k)} : k \in 1..MaxK}

GroupArgs == {NoGroups} \cup {GroupsOf(w, g) : w \in BOOLEAN, g \in 0..MaxK}

\* title and save_path: <<>> is None
OptArgs ==
    [title : {<<>>, <<"t">>}, save_path : {<<>>, <<"f">>},
     ytick_labels : BOOLEAN, draw_grid : BOOLEAN]

----------------------------------------------------------------------------
(* Results and logged library calls *)

NotCalled == [kind |-> "none", at |-> 0, counts |-> <<>>]

Ok == [kind |-> "ok", at |-> 0, counts |-> <<>>]

Returned == [kind |-> "returned", at |-> 0, counts |-> <<>>]

Raise(kind, line, counts) == [kind |-> kind, at |-> line, counts |-> counts]

Op(name, x, y, text, items, on) ==
    [op |-> name, x |-> x, y |-> y, text |-> text, items |-> items, on |-> on]

----------------------------------------------------------------------------
(* Lines 104-116: normalisation and angular positions *)

PyLen(v) == IF v.nested THEN Len(v.rows) ELSE Len(v.rows[1])

WrappedNever(lbls, v) == FALSE

Wrapped(lbls, v) == Len(lbls) = PyLen(v)

IsRagged(rows) == \E i, j \in 1..Len(rows) : Len(rows[i]) # Len(rows[j])

\* np.array(values) after the optional wrap; objArrays: the numpy build turns
\* a ragged nested list into an object array instead of raising ValueError.
NpArrayValues(lbls, v, objArrays) ==
    IF ~v.nested
    THEN IF Wrapped(lbls, v)
         THEN [raised |-> FALSE,
               items |-> <<[ndim |-> 1, rows |-> v.rows, obj |-> FALSE]>>]
         ELSE [raised |-> FALSE,
               items |-> [i \in 1..Len(v.rows[1]) |->
                            [ndim |-> 0, rows |-> <<<<v.rows[1][i]>>>>, obj |-> FALSE]]]
    ELSE IF IsRagged(v.rows) /\ ~objArrays
         THEN [raised |-> TRUE, items |-> <<>>]
         ELSE IF Wrapped(lbls, v)
              THEN [raised |-> FALSE,
                    items |-> <<[ndim |-> 2, rows |-> v.rows, obj |-> IsRagged(v.rows)]>>]
              ELSE [raised |-> FALSE,
                    items |-> [i \in 1..Len(v.rows) |->
                                 [ndim |-> 1, rows |-> <<v.rows[i]>>, obj |-> FALSE]]]

ThetaOpen(n) == [i \in 1..n |-> [num |-> i - 1, den |-> n]]

Theta(n) == [i \in 1..(n + 1) |-> [num |-> i - 1, den |-> n]]

----------------------------------------------------------------------------
(* Lines 119-145: the loop over the series *)

RECURSIVE Ravel(_)
Ravel(rows) == IF rows = <<>> THEN <<>> ELSE Head(rows) \o Ravel(Tail(rows))

\* value[0] exists
HasIndexZero(item) ==
    CASE item.ndim = 0 -> FALSE
      [] item.ndim = 1 -> Len(item.rows[1]) > 0
      [] OTHER -> Len(item.rows) > 0

ClosedWithLast(item) ==
    IF item.ndim = 1
    THEN item.rows[1] \o <<item.rows[1][Len(item.rows[1])]>>
    ELSE Ravel(item.rows) \o item.rows[Len(item.rows)]

\* np.append(value, value[0])
Closed(item) ==
    IF item.ndim = 1
    THEN item.rows[1] \o <<item.rows[1][1]>>
    ELSE Ravel(item.rows) \o item.rows[1]

GroupsTruthy(g) == g.given /\ Len(g.names) > 0

GroupMismatch(g, items) == Len(g.names) # Len(items)

DefaultNameZeroBased(index) == <<"G", "r", "o", "u", "p", " ", ToString(index)>>

\* f"Group {index + 1}"
DefaultName(index) == <<"G", "r", "o", "u", "p", " ", ToString(index + 1)>>

\* str(groups[index][0]), index counted from 0
GroupName(g, index) ==
    IF g.wrapped THEN g.names[index + 1] ELSE <<g.names[index + 1][1]>>

PlotRaises(th, y, item) == item.obj \/ Len(th) # Len(y)

\* the labels ax.legend collects: those of the lines plotted so far
LegendEntries(log) ==
    LET P == SelectSeq(log, LAMBDA o : o.op = "plot")
    IN  [i \in 1..Len(P) |-> P[i].text]

LegendAlways(items) == TRUE

LegendShown(items) == Len(items) # 1

Drawn(log, th, y, name, items) ==
    LET plotted == log \o <<Op("plot", th, y, name, <<>>, TRUE),
                            Op("fill", th, y, <<>>, <<>>, TRUE)>>
    IN  IF LegendShown(items)
        THEN plotted \o <<Op("legend", <<>>, <<>>, <<>>, LegendEntries(plotted), FALSE)>>
        ELSE plotted

IterationLateCheck(log, th, items, index, g) ==
    LET item == items[index + 1]
    IN  IF ~HasIndexZero(item)
        THEN [ops |-> log, result |-> Raise("IndexError", 120, <<>>)]
        ELSE IF PlotRaises(th, Closed(item), item)
        THEN [ops |-> log, result |-> Raise("ValueError", 133, <<>>)]
        ELSE IF GroupsTruthy(g) /\ GroupMismatch(g, items)
        THEN [ops |-> Drawn(log, th, Closed(item), DefaultName(index), items),
              result |-> Raise("Exception", 125, <<Len(items), Len(g.names)>>)]
        ELSE [ops |-> Drawn(log, th, Closed(item),
                            IF GroupsTruthy(g) THEN GroupName(g, index)
                            ELSE DefaultName(index), items),
              result |-> Ok]

Iteration(log, th, items, index, g) ==
    LET item == items[index + 1]
    IN  IF ~HasIndexZero(item)
        THEN [ops |-> log, result |-> Raise("IndexError", 120, <<>>)]
        ELSE IF GroupsTruthy(g) /\ GroupMismatch(g, items)
        THEN [ops |-> log,
              result |-> Raise("Exception", 125, <<Len(items), Len(g.names)>>)]
        ELSE IF PlotRaises(th, Closed(item), item)
        THEN [ops |-> log, result |-> Raise("ValueError", 133, <<>>)]
        ELSE [ops |-> Drawn(log, th, Closed(item),
                            IF GroupsTruthy(g) THEN GroupName(g, index)
                            ELSE DefaultName(index), items),
              result |-> Ok]

RECURSIVE DrawLoop(_, _, _, _, _)
DrawLoop(log, th, items, index, g) ==
    IF index >= Len(items)
    THEN [ops |-> log, result |-> Ok]
    ELSE LET r == Iteration(log, th, items, index, g)
         IN  IF r.result.kind # "ok" THEN r
             ELSE DrawLoop(r.ops, th, items, index + 1, g)

----------------------------------------------------------------------------
(* Lines 147-169: ticks, title, grid, layout, export *)

Styled(log, th, lbls, o) ==
    log \o <<Op("xticks", SubSeq(th, 1, Len(th) - 1), <<>>, <<>>, lbls, TRUE)>>
        \o (IF o.ytick_labels = FALSE
            THEN <<Op("set_yticklabels", <<>>, <<>>, <<>>, <<>>, FALSE)>> ELSE <<>>)
        \o <<Op("tick_params", <<>>, <<>>, <<>>, <<>>, TRUE)>>
        \o (IF o.title # <<>>
            THEN <<Op("suptitle", <<>>, <<>>, o.title, <<>>, TRUE)>> ELSE <<>>)
        \o <<Op("grid", <<>>, <<>>, <<>>, <<>>, o.draw_grid)>>
        \o <<Op("tight_layout", <<>>, <<>>, <<>>, <<>>, TRUE)>>
        \o (IF o.save_path # <<>>
            THEN <<Op("savefig", <<>>, <<>>, o.save_path, <<>>, TRUE)>> ELSE <<>>)

----------------------------------------------------------------------------
(* The whole call *)

\* exportOk: plt.savefig succeeds
Render(lbls, v, g, o, objArrays, exportOk) ==
    LET arr == NpArrayValues(lbls, v, objArrays)
        th  == Theta(Len(lbls))
        fig == <<Op("figure", <<>>, <<>>, <<>>, <<>>, TRUE)>>
    IN  IF arr.raised
        THEN [theta |-> <<>>, ops |-> <<>>, saved |-> FALSE,
              result |-> Raise("ValueError", 110, <<>>)]
        ELSE LET d == DrawLoop(fig, th, arr.items, 0, g)
             IN  IF d.result.kind # "ok"
                 THEN [theta |-> th, ops |-> d.ops, saved |-> FALSE, result |-> d.result]
                 ELSE IF o.save_path # <<>> /\ ~exportOk
                 THEN [theta |-> th, ops |-> Styled(d.ops, th, lbls, o), saved |-> FALSE,
                       result |-> Raise("ExportError", 169, <<>>)]
                 ELSE [theta |-> th, ops |-> Styled(d.ops, th, lbls, o),
                       saved |-> (o.save_path # <<>>), result |-> Returned]

Init ==
    /\ labels = <<>>
    /\ values = FlatValues("equal", 0)
    /\ groups = NoGroups
    /\ opts = [title |-> <<>>, save_path |-> <<>>, ytick_labels |-> FALSE, draw_grid |-> TRUE]
    /\ theta = <<>>
    /\ ops = <<>>
    /\ result = NotCalled
    /\ saved = FALSE

RadarChart ==
    /\ result.kind = "none"
    /\ \E n \in 0..MaxN, v \in ValueArgs, g \in GroupArgs, o \in OptArgs :
       \E objArrays \in (IF IsRagged(v.rows) THEN BOOLEAN ELSE {FALSE}),
          exportOk \in (IF o.save_path # <<>> THEN BOOLEAN ELSE {TRUE}) :
          LET r == Render(LabelsOf(n), v, g, o, objArrays, exportOk)
          IN  /\ labels' = LabelsOf(n)
              /\ values' = v
              /\ groups' = g
              /\ opts' = o
              /\ theta' = r.theta
              /\ ops' = r.ops
              /\ result' = r.result
              /\ saved' = r.saved

Next == RadarChart

Spec == Init /\ [][Next]_vars

----------------------------------------------------------------------------
(* Observations of a finished call *)

Called == result.kind # "none"

N == Len(labels)

PlotOps == SelectSeq(ops, LAMBDA o : o.op = "plot")

FillOps == SelectSeq(ops, LAMBDA o : o.op = "fill")

PlotIdx == {i \in 1..Len(ops) : ops[i].op = "plot"}

LegendIdx == {i \in 1..Len(ops) : ops[i].op = "legend"}

\* the number of series the caller supplied: a flat sequence is one series
NumSeries == IF values.nested THEN Len(values.rows) ELSE 1

SeriesAt(i) == IF values.nested THEN values.rows[i] ELSE values.rows[1]

\* non-empty labels and every supplied series as long as the labels
WellFormed == N >= 1 /\ \A i \in 1..NumSeries : Len(SeriesAt(i)) = N

\* no labels, or a supplied series (values = [] supplies none) whose length is
\* not the number of labels
ShapeError == N = 0 \/ (PyLen(values) > 0 /\ ~WellFormed)

PostLoopOps ==
    {"xticks", "set_yticklabels", "tick_params", "suptitle", "grid", "tight_layout", "savefig"}

----------------------------------------------------------------------------
(* Claims *)

\* C1: every plotted series of length N is handed to plot and to fill as N+1
\* values: the N series values in their order, then the first value again.
C1_Closure ==
    /\ Len(FillOps) = Len(PlotOps)
    /\ \A i \in 1..Len(PlotOps) :
          /\ FillOps[i].y = PlotOps[i].y
          /\ (N >= 1 /\ Len(SeriesAt(i)) = N) =>
                /\ Len(PlotOps[i].y) = N + 1
                /\ SubSeq(PlotOps[i].y, 1, N) = SeriesAt(i)
                /\ PlotOps[i].y[N + 1] = PlotOps[i].y[1]

C1_Witness ==
    /\ N = 2 /\ values.nested /\ WellFormed
    /\ Len(PlotOps) = 3
    /\ PlotOps[3].y[1] # PlotOps[3].y[2]
    /\ PlotOps[3].y[3] = PlotOps[3].y[1]
    /\ PlotOps[3].y # PlotOps[1].y

\* C2: a supplied group_names whose length differs from the number of series
\* (length 0 included) makes the call raise the error naming both counts.
C2_GroupMismatchRejected ==
    (Called /\ WellFormed /\ groups.given /\ Len(groups.names) # NumSeries) =>
        /\ result.kind = "Exception"
        /\ result.counts = <<NumSeries, Len(groups.names)>>

\* C3: a flat sequence of length N is drawn exactly as the one-element list
\* holding it: same library calls, same outcome.
C3_ArityNormalization ==
    (Called /\ ~values.nested /\ PyLen(values) = N) =>
        \A objArrays \in BOOLEAN :
            LET r == Render(labels, [nested |-> TRUE, rows |-> values.rows], groups, opts,
                            objArrays, result.kind # "ExportError")
            IN  /\ r.ops = ops
                /\ r.result = result
                /\ r.saved = saved
                /\ r.theta = theta

C3_Witness ==
    /\ ~values.nested /\ N = 2 /\ PyLen(values) = N
    /\ result.kind = "returned"
    /\ Len(PlotOps) = 1
    /\ PlotOps[1].y = values.rows[1] \o <<values.rows[1][1]>>
    /\ LegendIdx = {}

\* C4: K >= 1 series of length N each, no group mismatch: exactly K polygons,
\* the i-th carrying the i-th series, for every K (K = N >= 2 included).
C4_OnePolygonPerSeries ==
    (Called /\ values.nested /\ WellFormed
        /\ (groups.given => Len(groups.names) = NumSeries)) =>
        /\ Len(PlotOps) = NumSeries
        /\ \A i \in 1..Len(PlotOps) : SubSeq(PlotOps[i].y, 1, N) = SeriesAt(i)

\* C5: after a successful call, one drawn series means no legend call at all;
\* K >= 2 drawn series mean a legend whose last call comes after all K plots
\* and lists the K display names in input order.
C5_LegendVisibility ==
    result.kind = "returned" =>
        /\ Cardinality(PlotIdx) = 1 => LegendIdx = {}
        /\ Cardinality(PlotIdx) >= 2 =>
              /\ LegendIdx # {}
              /\ LET last == CHOOSE l \in LegendIdx : \A m \in LegendIdx : m <= l
                 IN  /\ \A p \in PlotIdx : p < last
                     /\ Len(ops[last].items) = Len(PlotOps)
                     /\ \A i \in 1..Len(PlotOps) : ops[last].items[i] = PlotOps[i].text

C5_Witness ==
    /\ result.kind = "returned"
    /\ N = 2
    /\ Cardinality(PlotIdx) = 3
    /\ Cardinality(LegendIdx) = 3
    /\ PlotOps[1].text # PlotOps[2].text
    /\ Len(ops[CHOOSE l \in LegendIdx : \A m \in LegendIdx : m <= l].items) = 3

\* C6: with K series and K supplied names, the i-th display name is the i-th
\* name, given as a plain string or wrapped in a one-element list.
C6_GroupNamesAsLabels ==
    (Called /\ WellFormed /\ groups.given /\ Len(groups.names) = NumSeries) =>
        \A i \in 1..Len(PlotOps) : PlotOps[i].text = groups.names[i]

\* C7: without group_names the series at 0-based index i is named
\* "Group " followed by i+1.
C7_DefaultNaming ==
    (Called /\ ~groups.given) =>
        \A k \in 1..Len(PlotOps) :
            PlotOps[k].text = <<"G", "r", "o", "u", "p", " ">> \o <<ToString(k)>>

C7_Witness ==
    /\ ~groups.given /\ N = 1 /\ WellFormed
    /\ Len(PlotOps) = 2
    /\ PlotOps[1].text = <<"G", "r", "o", "u", "p", " ", "1">>
    /\ PlotOps[2].text = <<"G", "r", "o", "u", "p", " ", "2">>

\* C8: N >= 1 labels give N+1 angular positions, the i-th (from 0) at i/N of a
\* turn: the first N strictly increasing, evenly spaced and in [0, 1 turn),
\* the last exactly one turn; the ticks sit on the first N positions and
\* tick i carries labels[i].
C8_AngularSpacing ==
    (Called /\ result.at # 110 /\ N >= 1) =>
        /\ Len(theta) = N + 1
        /\ \A i \in 1..Len(theta) :
              theta[i].den > 0 /\ theta[i].num * N = (i - 1) * theta[i].den
        /\ \A i \in 1..N : 0 <= theta[i].num /\ theta[i].num < theta[i].den
        /\ \A i \in 1..(N - 1) :
              /\ theta[i].num * theta[i + 1].den < theta[i + 1].num * theta[i].den
              /\ (theta[i + 1].num * theta[i].den - theta[i].num * theta[i + 1].den) * N
                    = theta[i].den * theta[i + 1].den
        /\ theta[N + 1].num = theta[N + 1].den
        /\ \A i \in 1..Len(PlotOps) : PlotOps[i].x = theta
        /\ result.kind \in {"returned", "ExportError"} =>
              \E t \in 1..Len(ops) :
                  /\ ops[t].op = "xticks"
                  /\ \A u \in 1..Len(ops) : ops[u].op = "xticks" => u = t
                  /\ Len(ops[t].x) = N /\ Len(ops[t].items) = N
                  /\ \A i \in 1..N : ops[t].x[i] = theta[i] /\ ops[t].items[i] = labels[i]

C8_Witness ==
    /\ result.kind = "returned" /\ N = 2
    /\ Len(PlotOps) = 1
    /\ theta = <<[num |-> 0, den |-> 2], [num |-> 1, den |-> 2], [num |-> 2, den |-> 2]>>
    /\ \E t \in 1..Len(ops) : ops[t].op = "xticks" /\ ops[t].items = labels

\* C9: when the group/series count mismatch error is raised, nothing has been
\* plotted, filled or given a legend, and no later step runs.
C9_MismatchNoPartialChart ==
    result.kind = "Exception" =>
        /\ PlotOps = <<>> /\ FillOps = <<>> /\ LegendIdx = {}
        /\ \A i \in 1..Len(ops) : ops[i].op \notin PostLoopOps
        /\ ~saved

C9_Witness ==
    /\ result.kind = "Exception" /\ result.at = 125
    /\ result.counts = <<3, 2>>
    /\ values.nested /\ NumSeries = 3 /\ N = 2 /\ WellFormed
    /\ opts.save_path # <<>> /\ opts.title # <<>>

\* C10: a series whose length differs from the number of labels, or an empty
\* label sequence, makes the call report an error before anything is drawn.
C10_ShapeErrorsRejected ==
    (Called /\ ShapeError) =>
        /\ result.kind \notin {"returned", "ExportError"}
        /\ PlotOps = <<>> /\ FillOps = <<>>

====
